---- MODULE Spec2Model ----
(***************************************************************************)
(* CL hospitality ticket alert: the single-shot run of run_once.main, the  *)
(* fetch of one portal page (scraper.fetch_ticket_prices), the delivery of *)
(* the alert e-mail (notifier.ResendEmailNotifier.send) and its subject    *)
(* (notifier.build_ticket_alert_payload).                                  *)
(*                                                                         *)
(* Five specifications share the definitions:                              *)
(*  - Spec: one run of main under every clock and state file; SpecOrder:   *)
(*    one run, the order in which main stores the results recorded;        *)
(*    SpecDay: the runs of one calendar day from an absent state file; in  *)
(*    these main submits the tasks one by one, and the worker of a task    *)
(*    checks robots.txt and renders while main submits and collects;       *)
(*  - SpecEval: the evaluation, from the six results stored, over every    *)
(*    kind of site;                                                        *)
(*  - SpecUnit: cheapest_in_range, _extract_prices_from_text,              *)
(*    ResendEmailNotifier.send and fetch_ticket_prices called on their     *)
(*    own, the fetch step by step.                                         *)
(*                                                                         *)
(* Abstractions, all stated here:                                          *)
(*  - a future that is done does not show its result: the site the fetch   *)
(*    met, which agrees with the answer of its robots.txt check, is drawn  *)
(*    when main reads future.result();                                     *)
(*  - in a run prices are whole euros (the code holds floats) and a        *)
(*    rendered page is the sequence of numeric literals the four price     *)
(*    patterns match in its text, in match order;                          *)
(*  - called on its own, _extract_prices_from_text reads a text as a       *)
(*    sequence of ASCII characters and returns hundredths of a euro; a     *)
(*    number beyond FloatMax euros is held as FloatMax;                    *)
(*  - the time of a fetch counts its navigations and fixed waits only, in  *)
(*    ms: the fetch has taken that long at least;                          *)
(*  - ISO dates are strings compared by equality, as the code compares     *)
(*    them; the clock (hour, today) does not advance within one run;       *)
(*  - the dash of the robots.txt message is written in ASCII.              *)
(***************************************************************************)
EXTENDS Integers, Sequences, FiniteSets, TLC

VARIABLES
    pc,           \* position of main(): WindowCheck .. Done
    hour,         \* datetime.now(tz=TIMEZONE).hour of this run
    today,        \* datetime.now(tz=TIMEZONE).date().isoformat() of this run
    file,         \* content of STATE_FILE
    file0,        \* content of STATE_FILE when this run started
    fileWrites,   \* number of STATE_FILE.write_text calls of this run
    submitted,    \* fetch tasks handed to the thread pool in this run
    raw,          \* raw[name][portal]: TicketResult collected from a future
    game_alerts,  \* alert entries built by the evaluation loop
    failed_urls,  \* failure entries built by the evaluation loop
    apiKey,       \* <<>> until RESEND_API_KEY is read, then <<present?>>
    payload,      \* <<>> until the message is built, then <<AlertPayload>>
    sendCalls,    \* number of notifier.send calls of this run
    success,      \* <<>> until notifier.send returns, then <<its result>>
    exitCode,     \* <<>> while running, then <<exit status of the process>>
    runs,         \* number of runs started so far
    robots_cache, \* lru_cache of _is_allowed_by_robots: url -> allowed
    robots_reads, \* robots.txt reads (rp.read calls) of this process, per domain
    order,        \* tasks in the order main stored their results (SpecOrder only)
    futures,      \* futures[task]: how far the worker of a submitted task is
    call,         \* <<>>, or <<[fn, arg]>>: a function called on its own
    ret,          \* <<>> until that call has ended, then <<its outcome>>
    fetch,        \* position and effects of a fetch_ticket_prices call
    delivered     \* runs of this day, so far, whose notifier.send returned True

vars == << pc, hour, today, file, file0, fileWrites, submitted, raw,
           game_alerts, failed_urls, apiKey, payload, sendCalls, success,
           exitCode, runs, robots_cache, robots_reads, order, futures,
           call, ret, fetch, delivered >>

\* the state of the thread pool's workers, and of a function called on its own
poolVars == << robots_cache, robots_reads, order, futures >>
unitVars == << call, ret, fetch >>

(***************************************************************************)
(* Configuration (run_once.py, lines 33-59).                               *)
(***************************************************************************)
GAMES ==
    << [ name                 |-> "Arsenal vs TBC",
         p1travel_url         |-> "https://www.p1travel.com/en/football/champions-league/arsenal-vs-tbc-date-tbc",
         champions_travel_url |-> "https://champions-travel.com/tickets/uefa-champions-league?arsenal-v-tbc" ],
       [ name                 |-> "Manchester City vs TBC",
         p1travel_url         |-> "https://www.p1travel.com/en/football/champions-league/manchester-city-vs-tbc-date-tbc",
         champions_travel_url |-> "https://champions-travel.com/tickets/uefa-champions-league?manchester-city-v-tbc" ],
       [ name                 |-> "Chelsea vs TBC",
         p1travel_url         |-> "https://www.p1travel.com/en/football/champions-league/chelsea-vs-tbc-date-tbc",
         champions_travel_url |-> "https://champions-travel.com/tickets/uefa-champions-league?chelsea-v-tbc" ] >>

THRESHOLD_LOW == 100
THRESHOLD_HIGH == 500
RECIPIENT_EMAIL == "anandshenoyuidev@gmail.com"
ALERT_WINDOW_START == 9
ALERT_WINDOW_END == 17
MAX_ALERTS_PER_DAY == 10

P1 == "P1 Travel"
CHAMPS == "Champions Travel"
Portals == {P1, CHAMPS}
GameNames == { GAMES[i].name : i \in 1..Len(GAMES) }

(***************************************************************************)
(* Python values.                                                          *)
(***************************************************************************)
\* None where a price (float | None) is expected
None == -1
\* None where an error string (Optional[str]) is expected
NoError == "<None>"
\* None where a TicketResult is expected
NoResult == [ none |-> TRUE ]
\* bool(s) of an Optional[str]
Truthy(s) == s # NoError /\ s # ""
\* d.get(k) of a dict of TicketResults
Get(d, k) == IF k \in DOMAIN d THEN d[k] ELSE NoResult

\* min(...) of a non-empty sequence of numbers
Min(s) == CHOOSE x \in { s[i] : i \in 1..Len(s) } :
              \A j \in 1..Len(s) : x <= s[j]

RECURSIVE SortedSeq(_)
\* sorted(S) of a finite set of numbers
SortedSeq(S) ==
    IF S = {} THEN << >>
    ELSE LET m == CHOOSE x \in S : \A y \in S : x <= y
         IN  << m >> \o SortedSeq(S \ {m})

(***************************************************************************)
(* scraper.py                                                              *)
(***************************************************************************)
TicketResult(url, prices, error) ==
    [ url       |-> url,
      prices    |-> prices,
      min_price |-> IF prices # << >> THEN Min(prices) ELSE None,
      max_price |-> IF prices # << >> THEN prices[Len(prices)] ELSE None,
      error     |-> error ]

\* _extract_prices_from_text, from the literals the patterns matched
ExtractPrices(literals) ==
    LET found == SelectSeq(literals, LAMBDA val : 10 <= val /\ val <= 50000)
    IN  SortedSeq({ found[i] : i \in 1..Len(found) })

\* what a call ends with: the value it returns or the exception it raises
Returned(value) == [ kind |-> "returned", value |-> value ]
Raised(message) == [ kind |-> "raised", value |-> message ]

\* A page text is a sequence of characters, each a string of one character.
DigitValue ==
    "0" :> 0 @@ "1" :> 1 @@ "2" :> 2 @@ "3" :> 3 @@ "4" :> 4 @@
    "5" :> 5 @@ "6" :> 6 @@ "7" :> 7 @@ "8" :> 8 @@ "9" :> 9

\* the character at position i, "" before the start and past the end
CharAt(text, i) == IF i \in 1..Len(text) THEN text[i] ELSE ""
\* \d, \s and [\d,] of the patterns (lines 83-86), on ASCII characters.
\* The white space of \s in ASCII is the blank, \t, \n, \r, \f and the
\* control characters 0B (vertical tab), 1C, 1D, 1E and 1F (the file,
\* group, record and unit separators), written here as they are.
IsDigit(c) == c \in DOMAIN DigitValue
IsSpace(c) ==
    c \in { " ", "\t", "\n", "\r", "\f", "", "", "", "", "" }
IsDigitOrComma(c) == IsDigit(c) \/ c = ","
\* re.IGNORECASE (line 90): the letters of EUR are compared whatever their case
Upper(c) ==
    IF c = "e" THEN "E" ELSE IF c = "u" THEN "U" ELSE IF c = "r" THEN "R" ELSE c

\* float(raw) is held exactly up to this many euros; anything larger is
\* held as this much, far beyond the 50000 it is compared with (line 94)
FloatMax == 10000000

RECURSIVE DigitsValue(_)
\* the number a sequence of digits writes, << >> being 0
DigitsValue(digits) ==
    IF digits = << >> THEN 0
    ELSE LET v == DigitsValue(SubSeq(digits, 1, Len(digits) - 1)) * 10
                  + DigitValue[digits[Len(digits)]]
         IN  IF v > FloatMax THEN FloatMax ELSE v

\* line 91: match.group(1).replace(",", "")
StripCommas(chars) == SelectSeq(chars, LAMBDA c : c # ",")

\* line 93: float(raw), in hundredths of a euro, of characters that are digits
\* and at most one point followed by one or two digits; no character at
\* all raises ValueError
FloatOf(chars) ==
    IF chars = << >> THEN Raised("ValueError")
    ELSE LET point == IF \E i \in 1..Len(chars) : chars[i] = "."
                      THEN CHOOSE i \in 1..Len(chars) : chars[i] = "."
                      ELSE Len(chars) + 1
             int   == SubSeq(chars, 1, point - 1)
             frac  == SubSeq(chars, point + 1, Len(chars))
         IN  Returned(DigitsValue(int) * 100
                      + (IF Len(frac) = 1 THEN DigitValue[frac[1]] * 10
                         ELSE DigitsValue(frac)))

\* lines 82-87: the four patterns, the currency mark before or after the
\* number; the mark is written in capitals and compared through Upper
PricePatterns ==
    << [ mark |-> << "€" >>, first |-> TRUE ],
       [ mark |-> << "E", "U", "R" >>, first |-> TRUE ],
       [ mark |-> << "€" >>, first |-> FALSE ],
       [ mark |-> << "E", "U", "R" >>, first |-> FALSE ] >>

RECURSIVE SpacesEnd(_, _)
\* \s*: the position after the white space that starts at i
SpacesEnd(text, i) ==
    IF IsSpace(CharAt(text, i)) THEN SpacesEnd(text, i + 1) ELSE i

RECURSIVE RunEnd(_, _)
\* [\d,]*: the position after the digits and commas that start at i
RunEnd(text, i) ==
    IF IsDigitOrComma(CharAt(text, i)) THEN RunEnd(text, i + 1) ELSE i

\* [\d,]+(?:\.\d{1,2})? at i: the position after the number, i when there
\* is no number at i. The digits and commas are taken as far as they go,
\* then a point with one or two digits when they follow.
NumberEnd(text, i) ==
    LET j == RunEnd(text, i)
    IN  IF j = i THEN i
        ELSE IF CharAt(text, j) = "." /\ IsDigit(CharAt(text, j + 1))
        THEN IF IsDigit(CharAt(text, j + 2)) THEN j + 3 ELSE j + 2
        ELSE j

\* the mark of a pattern stands at i, in any case
MarkAt(text, i, mark) ==
    \A k \in 1..Len(mark) : Upper(CharAt(text, i + k - 1)) = mark[k]

\* The match of a pattern that starts at i: whether there is one, the
\* positions of group 1 (from..to) and the position after the match. No
\* white space is needed between mark and number, and nothing is asked of
\* the characters around the match. What follows a part of a pattern never
\* begins with a character that part takes (white space, number and mark
\* have no character in common), so the longest match of each part is the
\* only match there is.
MatchAt(text, i, pattern) ==
    IF pattern.first
    THEN LET j == SpacesEnd(text, i + Len(pattern.mark))
             e == NumberEnd(text, j)
         IN  [ found |-> MarkAt(text, i, pattern.mark) /\ e > j,
               from  |-> j, to |-> e - 1, end |-> e ]
    ELSE LET e == NumberEnd(text, i)
             k == SpacesEnd(text, e)
         IN  [ found |-> e > i /\ MarkAt(text, k, pattern.mark),
               from  |-> i, to |-> e - 1, end |-> k + Len(pattern.mark) ]

RECURSIVE Finditer(_, _, _)
\* line 90: re.finditer(pattern, text, re.IGNORECASE), from position i on:
\* the starts of the matches, found from left to right, each search
\* resuming where the match before ended
Finditer(text, i, pattern) ==
    IF i > Len(text) THEN {}
    ELSE LET m == MatchAt(text, i, pattern)
         IN  IF m.found THEN { i } \cup Finditer(text, m.end, pattern)
             ELSE Finditer(text, i + 1, pattern)

\* the matches of all patterns (lines 89-90), as << pattern, position >>
Matches(text) ==
    UNION { { << p, i >> : i \in Finditer(text, 1, PricePatterns[p]) } :
                p \in 1..Len(PricePatterns) }

\* match.group(1) of that match
Group1(text, m) ==
    LET at == MatchAt(text, m[2], PricePatterns[m[1]])
    IN  SubSeq(text, at.from, at.to)

\* lines 91-93 for one match
ParsedMatch(text, m) == FloatOf(StripCommas(Group1(text, m)))

extract_prices_from_text_unguarded(text) ==
    IF \E m \in Matches(text) : ParsedMatch(text, m).kind = "raised"
    THEN Raised("ValueError")
    ELSE Returned(SortedSeq({ ParsedMatch(text, m).value : m \in
              { k \in Matches(text) :
                    /\ 10 * 100 <= ParsedMatch(text, k).value
                    /\ ParsedMatch(text, k).value <= 50000 * 100 } }))
\* _extract_prices_from_text (lines 80-98), prices in hundredths of a euro:
\* a ValueError of float is caught and the match skipped (lines 92-97), a
\* value outside 10..50000 is left out, the rest is sorted(set(found))
extract_prices_from_text(text) ==
    Returned(SortedSeq({ ParsedMatch(text, m).value : m \in
        { k \in Matches(text) :
              /\ ParsedMatch(text, k).kind = "returned"
              /\ 10 * 100 <= ParsedMatch(text, k).value
              /\ ParsedMatch(text, k).value <= 50000 * 100 } }))

PAGE_LOAD_TIMEOUT_MS == 30000
JS_SETTLE_WAIT_MS == 3000

IsAllowedByRobotsStrict(site) == site.robots = "allow"
\* _is_allowed_by_robots: site.robots is "allow" or "disallow" as
\* rp.can_fetch answers, "unreachable" when rp.read raises, which counts as
\* permitted (lines 72-75)
IsAllowedByRobots(site) ==
    IF site.robots = "unreachable" THEN TRUE ELSE site.robots = "allow"

\* urlparse(url).netloc of a configured URL (lines 62-63)
DomainOf(url) ==
    IF \E i \in 1..Len(GAMES) : GAMES[i].p1travel_url = url
    THEN "www.p1travel.com"
    ELSE "champions-travel.com"
Domains == { DomainOf(GAMES[i].p1travel_url) : i \in 1..Len(GAMES) }
           \cup { DomainOf(GAMES[i].champions_travel_url) : i \in 1..Len(GAMES) }

\* @lru_cache(maxsize=16) on _is_allowed_by_robots(url): the key of an entry
\* is the argument of the call, the whole url
CacheKey(url) == url
CacheHit(cache, url) == CacheKey(url) \in DOMAIN cache
\* what the cached function answers for url on a site
RobotsAnswer(cache, url, site) ==
    IF CacheHit(cache, url) THEN cache[CacheKey(url)] ELSE IsAllowedByRobots(site)
\* the cache after that call: a miss runs the function and stores its answer
CacheAfter(cache, url, site) ==
    IF CacheHit(cache, url) THEN cache
    ELSE (CacheKey(url) :> IsAllowedByRobots(site)) @@ cache
\* the robots.txt reads after that call: a miss reads the domain's robots.txt
ReadsAfter(reads, cache, url) ==
    IF CacheHit(cache, url) THEN reads
    ELSE [ reads EXCEPT ![DomainOf(url)] = @ + 1 ]
\* the calls of _scrape_with_playwright that follow the navigation (lines
\* 127-132), in their order, and the fixed waits that have ended when each
\* is called
SettleCalls ==
    << "wait_for_timeout", "evaluate", "wait_for_timeout after scroll",
       "inner_text", "close" >>
WaitedBefore(at) ==
    IF at = "wait_for_timeout" THEN 0
    ELSE IF at \in { "evaluate", "wait_for_timeout after scroll" }
    THEN JS_SETTLE_WAIT_MS
    ELSE JS_SETTLE_WAIT_MS + 1000
\* none of them raises; one of them raises PWTimeout ("timeout") or
\* anything else ("fault")
NoneRaises == [ raises |-> "none", at |-> "none" ]
Raises(kind, at) == [ raises |-> kind, at |-> at ]

\* the navigation has ended (line 122, or line 125 after a time-out of
\* line 122) and the calls of lines 127-132 are made
Settles(site) ==
    /\ site.launch = "ok"
    /\ \/ site.nav1 = "ok"
       \/ site.nav1 = "timeout" /\ site.nav2 = "ok"

\* _scrape_with_playwright: the text, or what leaves the function: PWTimeout
\* ("timeout") or any other fault, with str(e) = message, raised while the
\* browser and the page are set up (lines 104-119), by the first
\* navigation (any fault but PWTimeout, line 122), by the second navigation
\* (line 125) or by a call of lines 127-132
ScrapeWithPlaywright(site) ==
    IF site.launch # "ok" THEN [ kind |-> site.launch, message |-> site.message ]
    ELSE IF site.nav1 = "fault" THEN [ kind |-> "fault", message |-> site.message ]
    ELSE IF site.nav1 = "timeout" /\ site.nav2 # "ok"
    THEN [ kind |-> site.nav2, message |-> site.message ]
    ELSE IF site.settle.raises # "none"
    THEN [ kind |-> site.settle.raises, message |-> site.message ]
    ELSE [ kind |-> "text", text |-> site.text ]

\* lines 147-153: the outcome of a fetch the robots.txt check forbids
Blocked(url) ==
    TicketResult(url, << >>, "Blocked by robots.txt - skipping to stay compliant")

\* line 174: f"Page load timed out: {e}"
TimedOut(message) == "Page load timed out: " \o message

FetchOutcomeUncaught(url, r) ==
    IF r.kind = "text"
    THEN Returned(TicketResult(url, ExtractPrices(r.text), NoError))
    ELSE IF r.kind = "timeout"
         THEN Returned(TicketResult(url, << >>, TimedOut(r.message)))
         ELSE Raised(r.message)
\* lines 156-180: what fetch_ticket_prices ends with when
\* _scrape_with_playwright has returned a text (lines 157-171), raised
\* PWTimeout (lines 173-176) or raised anything else (lines 178-180)
FetchOutcome(url, r) ==
    IF r.kind = "text"
    THEN Returned(TicketResult(url, ExtractPrices(r.text), NoError))
    ELSE IF r.kind = "timeout"
         THEN Returned(TicketResult(url, << >>, TimedOut(r.message)))
         ELSE Returned(TicketResult(url, << >>, r.message))

\* fetch_ticket_prices
FetchTicketPrices(url, site) ==
    IF ~IsAllowedByRobots(site)
    THEN Blocked(url)
    ELSE FetchOutcome(url, ScrapeWithPlaywright(site)).value

(***************************************************************************)
(* run_once.py: alert window and daily cap                                 *)
(***************************************************************************)
Absent == [ kind |-> "absent" ]
\* a state file whose text json.loads rejects (a truncated write)
Corrupt == [ kind |-> "corrupt" ]
StateJson(date, count) == [ kind |-> "json", date |-> date, count |-> count ]

in_alert_window_closed(h) == ALERT_WINDOW_START <= h /\ h <= ALERT_WINDOW_END
in_alert_window(h) == ALERT_WINDOW_START <= h /\ h < ALERT_WINDOW_END

get_daily_count_any_date(f, t) ==
    IF f.kind = "absent" THEN 0
    ELSE IF f.kind = "corrupt" THEN 0
    ELSE f.count
\* lines 69-77
get_daily_count(f, t) ==
    IF f.kind = "absent" THEN 0
    ELSE IF f.kind = "corrupt" THEN 0
    ELSE IF f.date = t THEN f.count ELSE 0

cap_reached_strict(f, t) == get_daily_count(f, t) > MAX_ALERTS_PER_DAY
\* the test of line 126
cap_reached(f, t) == get_daily_count(f, t) >= MAX_ALERTS_PER_DAY

increment_daily_count_no_reset(f, t) ==
    StateJson(t, (IF f.kind = "json" THEN f.count ELSE 0) + 1)
\* the content increment_daily_count writes
increment_daily_count(f, t) ==
    LET data == IF f.kind = "json" /\ f.date = t THEN f ELSE StateJson(t, 0)
    IN  StateJson(data.date, data.count + 1)

(***************************************************************************)
(* run_once.py: helpers                                                    *)
(***************************************************************************)
cheapest_in_range_exclusive(result) ==
    IF result = NoResult THEN None
    ELSE IF Truthy(result.error) \/ result.prices = << >> THEN None
    ELSE LET in_range == SelectSeq(result.prices,
                 LAMBDA p : THRESHOLD_LOW < p /\ p < THRESHOLD_HIGH)
         IN  IF in_range # << >> THEN Min(in_range) ELSE None
\* lines 95-99
cheapest_in_range(result) ==
    IF result = NoResult THEN None
    ELSE IF Truthy(result.error) \/ result.prices = << >> THEN None
    ELSE LET in_range == SelectSeq(result.prices,
                 LAMBDA p : THRESHOLD_LOW <= p /\ p <= THRESHOLD_HIGH)
         IN  IF in_range # << >> THEN Min(in_range) ELSE None

portal_status(result, url) ==
    IF result = NoResult
    THEN [ ok |-> FALSE, reason |-> "No result returned", url |-> url ]
    ELSE IF Truthy(result.error)
    THEN [ ok |-> FALSE, reason |-> result.error, url |-> url ]
    ELSE IF result.prices = << >>
    THEN [ ok |-> FALSE, reason |-> "Page loaded but no prices found", url |-> url ]
    ELSE LET best == cheapest_in_range(result)
         IN  IF best = None
             THEN [ ok |-> FALSE, reason |-> "Prices found but none in EUR100-EUR500",
                    url |-> url ]
             ELSE [ ok |-> TRUE, best |-> best, url |-> url ]

\* status.get("best")
StatusBest(status) == IF status.ok THEN status.best ELSE None

(***************************************************************************)
(* run_once.py: main, the evaluation loop (lines 153-206)                  *)
(***************************************************************************)
\* scrape_tasks: every game's P1 Travel task, then every game's Champions one
scrape_tasks ==
    [ i \in 1..Len(GAMES) |->
        [ name |-> GAMES[i].name, portal |-> P1, url |-> GAMES[i].p1travel_url ] ]
    \o
    [ i \in 1..Len(GAMES) |->
        [ name |-> GAMES[i].name, portal |-> CHAMPS,
          url |-> GAMES[i].champions_travel_url ] ]

Tasks == { scrape_tasks[i] : i \in 1..Len(scrape_tasks) }

FailedUrl(name, portal_name, status) ==
    [ game_name |-> name, portal |-> portal_name,
      url |-> status.url, reason |-> status.reason ]

FailedEntriesFirstOnly(name, p1_status, champs_status) ==
    IF ~p1_status.ok THEN << FailedUrl(name, P1, p1_status) >>
    ELSE IF ~champs_status.ok THEN << FailedUrl(name, CHAMPS, champs_status) >>
    ELSE << >>
FailedEntriesFetchErrorsOnly(name, p1_status, champs_status) ==
    LET errored(st) == ~st.ok /\ st.reason \notin
            { "Page loaded but no prices found",
              "Prices found but none in EUR100-EUR500" }
    IN  (IF errored(p1_status) THEN << FailedUrl(name, P1, p1_status) >> ELSE << >>)
        \o (IF errored(champs_status)
            THEN << FailedUrl(name, CHAMPS, champs_status) >> ELSE << >>)
FailedEntriesOfSkippedGame(name, p1_status, champs_status) ==
    IF p1_status.ok \/ champs_status.ok THEN << >>
    ELSE << FailedUrl(name, P1, p1_status), FailedUrl(name, CHAMPS, champs_status) >>
\* lines 167-174: the failure entries of one game, P1 Travel first
FailedEntries(name, p1_status, champs_status) ==
    (IF ~p1_status.ok THEN << FailedUrl(name, P1, p1_status) >> ELSE << >>)
    \o (IF ~champs_status.ok
        THEN << FailedUrl(name, CHAMPS, champs_status) >> ELSE << >>)

ComparisonP1First(p1_ok, champs_ok) ==
    IF p1_ok THEN "p1_only"
    ELSE IF champs_ok THEN "champs_only"
    ELSE "none"
\* lines 177, 193-204: "none" stands for the skipped game (no alert entry)
Comparison(p1_ok, champs_ok) ==
    IF ~p1_ok /\ ~champs_ok THEN "none"
    ELSE IF p1_ok /\ champs_ok THEN "both"
    ELSE IF p1_ok THEN "p1_only"
    ELSE "champs_only"

CheaperPortalStrict(a, b) == IF a < b THEN P1 ELSE CHAMPS
\* line 194
CheaperPortal(a, b) == IF a <= b THEN P1 ELSE CHAMPS

\* line 195: abs(a - b)
Saving(a, b) == IF a - b >= 0 THEN a - b ELSE b - a

AlertOnlyPortalSwapped(game, p1_status, champs_status) ==
    LET comparison == Comparison(p1_status.ok, champs_status.ok)
    IN  [ game_name            |-> game.name,
          p1travel_url         |-> game.p1travel_url,
          champions_travel_url |-> game.champions_travel_url,
          p1_best              |-> StatusBest(p1_status),
          champs_best          |-> StatusBest(champs_status),
          threshold_low        |-> THRESHOLD_LOW,
          threshold_high       |-> THRESHOLD_HIGH,
          cheaper_portal       |->
              IF comparison = "both"
              THEN CheaperPortal(p1_status.best, champs_status.best)
              ELSE IF comparison = "p1_only" THEN CHAMPS ELSE P1,
          saving               |->
              IF comparison = "both"
              THEN Saving(p1_status.best, champs_status.best)
              ELSE None,
          comparison           |-> comparison ]
\* lines 182-204: the alert entry of a game that is not skipped
Alert(game, p1_status, champs_status) ==
    LET comparison == Comparison(p1_status.ok, champs_status.ok)
    IN  [ game_name            |-> game.name,
          p1travel_url         |-> game.p1travel_url,
          champions_travel_url |-> game.champions_travel_url,
          p1_best              |-> StatusBest(p1_status),
          champs_best          |-> StatusBest(champs_status),
          threshold_low        |-> THRESHOLD_LOW,
          threshold_high       |-> THRESHOLD_HIGH,
          cheaper_portal       |->
              IF comparison = "both"
              THEN CheaperPortal(p1_status.best, champs_status.best)
              ELSE IF comparison = "p1_only" THEN P1 ELSE CHAMPS,
          saving               |->
              IF comparison = "both"
              THEN Saving(p1_status.best, champs_status.best)
              ELSE None,
          comparison           |-> comparison ]

\* lines 176-206: the alert entries of one game (none when it is skipped)
AlertEntries(game, p1_status, champs_status) ==
    IF Comparison(p1_status.ok, champs_status.ok) = "none" THEN << >>
    ELSE << Alert(game, p1_status, champs_status) >>

\* the position in order of the first completed task of a game
FirstDone(name) ==
    CHOOSE i \in 1..Len(order) :
        /\ order[i].name = name
        /\ \A j \in 1..(i - 1) : order[j].name # name
\* the games, by the completion of their first task
GamesAsCompleted ==
    LET firsts == SortedSeq({ FirstDone(GAMES[i].name) : i \in 1..Len(GAMES) })
    IN  [ k \in 1..Len(GAMES) |->
            CHOOSE game \in { GAMES[i] : i \in 1..Len(GAMES) } :
                game.name = order[firsts[k]].name ]
RECURSIVE EvaluateGamesAsCompleted(_, _)
EvaluateGamesAsCompleted(r, n) ==
    IF n = 0 THEN [ game_alerts |-> << >>, failed_urls |-> << >> ]
    ELSE LET before        == EvaluateGamesAsCompleted(r, n - 1)
             game          == GamesAsCompleted[n]
             p1_status     == portal_status(Get(r[game.name], P1), game.p1travel_url)
             champs_status == portal_status(Get(r[game.name], CHAMPS),
                                            game.champions_travel_url)
         IN  [ game_alerts |-> before.game_alerts
                   \o AlertEntries(game, p1_status, champs_status),
               failed_urls |-> before.failed_urls
                   \o FailedEntries(game.name, p1_status, champs_status) ]
RECURSIVE EvaluateGames(_, _)
\* lines 150-206: the loop over GAMES[1..n], in configured order
EvaluateGames(r, n) ==
    IF n = 0 THEN [ game_alerts |-> << >>, failed_urls |-> << >> ]
    ELSE LET before        == EvaluateGames(r, n - 1)
             game          == GAMES[n]
             p1_status     == portal_status(Get(r[game.name], P1), game.p1travel_url)
             champs_status == portal_status(Get(r[game.name], CHAMPS),
                                            game.champions_travel_url)
         IN  [ game_alerts |-> before.game_alerts
                   \o AlertEntries(game, p1_status, champs_status),
               failed_urls |-> before.failed_urls
                   \o FailedEntries(game.name, p1_status, champs_status) ]

(***************************************************************************)
(* notifier.py: the subject of the message (lines 133-142)                 *)
(***************************************************************************)
build_ticket_alert_payload_both_parts(recipient, alerts, failures) ==
    [ subject   |->
          << [ n |-> Len(alerts), what |-> "game(s) in range" ],
             [ n |-> Len(failures), what |-> "URL(s) failed" ] >>,
      recipient |-> recipient ]
build_ticket_alert_payload(recipient, alerts, failures) ==
    [ subject   |->
          (IF alerts # << >>
           THEN << [ n |-> Len(alerts), what |-> "game(s) in range" ] >>
           ELSE << >>)
          \o (IF failures # << >>
              THEN << [ n |-> Len(failures), what |-> "URL(s) failed" ] >>
              ELSE << >>),
      recipient |-> recipient ]

\* What the Resend API does with one delivery request: requests.post raises
\* (no connection, or no answer within timeout=10), or a response comes back
\* with a status and a body.  The statuses are one of each class: 101
\* (informational), 200 and 204 (success), 304 (a 3xx that requests does not
\* follow, having no Location), 401 and 500 (client and server errors), and
\* 399, 400, 599, 600 (either side of the two limits of raise_for_status).
Response(status, body) == [ kind |-> "response", status |-> status, body |-> body ]
Statuses == { 101, 200, 204, 304, 399, 400, 401, 500, 599, 600 }
\* the statuses raise_for_status (line 67) raises HTTPError for
HTTPErrorStatus(status) == 400 <= status /\ status < 600
Bodies == { "object with id", "object without id", "array", "not json" }
Deliveries ==
    { [ kind |-> "ConnectionError" ], [ kind |-> "Timeout" ] }
    \cup { Response(status, body) : status \in Statuses, body \in Bodies }

\* notifier.py lines 52-69, the body of the try: the value returned, or the
\* class of the exception raised
SendTry(delivery) ==
    IF delivery.kind # "response" THEN Raised(delivery.kind)
    \* line 67: response.raise_for_status() raises for 400 to 599
    ELSE IF HTTPErrorStatus(delivery.status) THEN Raised("HTTPError")
    \* line 68: response.json().get("id", "unknown")
    ELSE IF delivery.body = "not json" THEN Raised("JSONDecodeError")
    ELSE IF delivery.body = "array" THEN Raised("AttributeError")
    ELSE Returned(TRUE)

ResendEmailNotifier_send_http_only(delivery) ==
    LET r == SendTry(delivery)
    IN  IF r.kind = "returned" THEN r
        ELSE IF r.value = "HTTPError" THEN Returned(FALSE)
        ELSE r
\* ResendEmailNotifier.send (lines 50-76): except HTTPError (lines 71-73)
\* and except Exception (lines 74-76) both return False
ResendEmailNotifier_send(delivery) ==
    LET r == SendTry(delivery)
    IN  IF r.kind = "returned" THEN r
        ELSE IF r.value = "HTTPError" THEN Returned(FALSE)
        ELSE Returned(FALSE)

(***************************************************************************)
(* The world a run meets: the clock, the state file, the portal sites.     *)
(***************************************************************************)
\* consecutive calendar days
Days == << "2026-03-10", "2026-03-11", "2026-03-12" >>

\* hours around both ends of the alert window, and the ends of the day
Hours == { 0, ALERT_WINDOW_START - 1, ALERT_WINDOW_START,
           ALERT_WINDOW_END - 1, ALERT_WINDOW_END, 23 }

\* runs of one day: enough to reach the daily cap and to start again after it
MaxDayRuns == 12
DayHours == { ALERT_WINDOW_START - 1, ALERT_WINDOW_START }

\* counts a state file written by earlier runs can hold
InitCounts == { 1, MAX_ALERTS_PER_DAY - 1, MAX_ALERTS_PER_DAY }

\* what one portal page does when fetched: the answer of its robots.txt,
\* the two navigations, the text of the page, str(e) of what is raised; the
\* browser starts and the calls after the navigation do not raise
Site(robots, nav1, nav2, text, message) ==
    [ robots |-> robots, launch |-> "ok", nav1 |-> nav1, nav2 |-> nav2,
      settle |-> NoneRaises, text |-> text, message |-> message ]

SiteBlocked  == Site("disallow", "ok", "ok", << 150 >>, "")
SiteTimeout  == Site("allow", "timeout", "timeout", << >>, "Timeout 30000ms exceeded")
\* a fault whose str(e) is empty
SiteFault    == Site("allow", "fault", "ok", << >>, "")
SiteNoPrices == Site("allow", "ok", "ok", << 5 >>, "")
SiteOutside  == Site("allow", "ok", "ok", << 600, 50 >>, "")
SiteLow      == Site("unreachable", "ok", "ok", << 120, 100, 120 >>, "")
SiteHigh     == Site("allow", "timeout", "ok", << 600, 500, 99 >>, "")

\* the sites of the evaluation runs
Sites == { SiteBlocked, SiteTimeout, SiteFault, SiteNoPrices, SiteOutside,
           SiteLow, SiteHigh }
\* the sites of the controller runs
SitesCtl == { SiteBlocked, SiteLow }
\* the site of the runs of one day
SitesDay == { SiteLow }

(***************************************************************************)
(* run_once.py: main, step by step                                         *)
(***************************************************************************)
Exit(code) == pc' = "Done" /\ exitCode' = << code >>

\* lines 121-124
WindowCheck ==
    /\ pc = "WindowCheck"
    /\ IF in_alert_window(hour)
       THEN pc' = "CapCheck" /\ UNCHANGED exitCode
       ELSE Exit(0)
    /\ UNCHANGED << hour, today, file, file0, fileWrites, submitted, raw,
                    game_alerts, failed_urls, apiKey, payload, sendCalls,
                    success, runs >>
    /\ UNCHANGED << poolVars, unitVars, delivered >>

CapCheckSkipped ==
    /\ pc = "CapCheck"
    /\ pc' = "Scraping"
    /\ UNCHANGED << hour, today, file, file0, fileWrites, submitted, raw,
                    game_alerts, failed_urls, apiKey, payload, sendCalls,
                    success, exitCode, runs >>
    /\ UNCHANGED << poolVars, unitVars, delivered >>
\* lines 126-128
CapCheck ==
    /\ pc = "CapCheck"
    /\ IF cap_reached(file, today)
       THEN Exit(0)
       ELSE pc' = "Scraping" /\ UNCHANGED exitCode
    /\ UNCHANGED << hour, today, file, file0, fileWrites, submitted, raw,
                    game_alerts, failed_urls, apiKey, payload, sendCalls,
                    success, runs >>
    /\ UNCHANGED << poolVars, unitVars, delivered >>

\* lines 139-144: raw is created, then one pool.submit for each task, in the
\* order of scrape_tasks; the worker of a submitted task starts at once
\* (max_workers is the number of tasks), while main submits the next
Submit ==
    /\ pc = "Scraping"
    /\ LET k    == Cardinality(submitted) + 1
           task == scrape_tasks[k]
       IN  /\ submitted' = submitted \cup { task }
           /\ futures' = (task :> "running") @@ futures
           /\ raw' = IF k = 1 THEN [ name \in GameNames |-> << >> ] ELSE raw
           /\ pc' = IF k = Len(scrape_tasks) THEN "Collecting" ELSE "Scraping"
    /\ UNCHANGED << hour, today, file, file0, fileWrites, game_alerts,
                    failed_urls, apiKey, payload, sendCalls, success,
                    exitCode, runs >>
    /\ UNCHANGED << robots_cache, robots_reads, order, unitVars, delivered >>

Collected(r, task) == task.portal \in DOMAIN r[task.name]

\* the pool is open: main is submitting, or waiting in as_completed
PoolOpen == pc \in { "Scraping", "Collecting" }

\* a site for each answer the robots.txt check can get from the sites
PolicySites(sites) ==
    { CHOOSE site \in sites : IsAllowedByRobots(site) = allowed :
          allowed \in { IsAllowedByRobots(site) : site \in sites } }

\* what the worker of a task does next, its robots.txt check having answered
AfterCheck(allowed) == IF allowed THEN "checked" ELSE "done"

\* scraper.py lines 146 and 55-67, in a worker thread: the robots.txt check
\* of a task is called; a url the cache holds is answered at once, any other
\* calls rp.read() and waits for the robots.txt of its domain
RobotsRead ==
    /\ PoolOpen
    /\ \E task \in submitted :
          /\ futures[task] = "running"
          /\ robots_reads' = ReadsAfter(robots_reads, robots_cache, task.url)
          /\ futures' = [ futures EXCEPT ![task] =
                            IF CacheHit(robots_cache, task.url)
                            THEN AfterCheck(robots_cache[CacheKey(task.url)])
                            ELSE "reading" ]
    /\ UNCHANGED << pc, hour, today, file, file0, fileWrites, submitted, raw,
                    game_alerts, failed_urls, apiKey, payload, sendCalls,
                    success, exitCode, runs >>
    /\ UNCHANGED << robots_cache, order, unitVars, delivered >>

\* scraper.py lines 67-75 and 146-153, in a worker thread: rp.read() returns
\* or raises, the answer is cached and the check returns; a fetch the check
\* forbids returns at once (its future is done)
RobotsCheckFrom(sites) ==
    /\ PoolOpen
    /\ \E task \in submitted, site \in PolicySites(sites) :
          /\ futures[task] = "reading"
          /\ robots_cache' = CacheAfter(robots_cache, task.url, site)
          /\ futures' = [ futures EXCEPT ![task] =
                            AfterCheck(RobotsAnswer(robots_cache, task.url, site)) ]
    /\ UNCHANGED << pc, hour, today, file, file0, fileWrites, submitted, raw,
                    game_alerts, failed_urls, apiKey, payload, sendCalls,
                    success, exitCode, runs >>
    /\ UNCHANGED << robots_reads, order, unitVars, delivered >>

\* scraper.py lines 155-180, in a worker thread: the page is rendered, or
\* the render fails, and fetch_ticket_prices returns (the future is done)
Render ==
    /\ PoolOpen
    /\ \E task \in submitted :
          /\ futures[task] = "checked"
          /\ futures' = [ futures EXCEPT ![task] = "done" ]
    /\ UNCHANGED << pc, hour, today, file, file0, fileWrites, submitted, raw,
                    game_alerts, failed_urls, apiKey, payload, sendCalls,
                    success, exitCode, runs >>
    /\ UNCHANGED << robots_cache, robots_reads, order, unitVars, delivered >>

\* the sites a done future can have met: those whose robots.txt answers as
\* the check of the task answered
SitesMet(sites, task) ==
    { site \in sites : IsAllowedByRobots(site) = robots_cache[CacheKey(task.url)] }

\* line 147: raw[name][portal] = future.result(), the result
\* fetch_ticket_prices returned on the site
FetchOne(task, site) ==
    raw' = [ raw EXCEPT ![task.name] =
               (task.portal :> FetchTicketPrices(task.url, site)) @@ @ ]

\* run_once.py lines 145-147, in main: as_completed hands over a future that
\* is done and its result is stored
FetchCompleteFrom(sites) ==
    /\ pc = "Collecting"
    /\ \E task \in submitted :
          /\ futures[task] = "done"
          /\ ~Collected(raw, task)
          /\ \E site \in SitesMet(sites, task) : FetchOne(task, site)
    /\ UNCHANGED << pc, hour, today, file, file0, fileWrites, submitted,
                    game_alerts, failed_urls, apiKey, payload, sendCalls,
                    success, exitCode, runs >>
    /\ UNCHANGED << poolVars, unitVars, delivered >>

\* the same, the order of the results being recorded
FetchCompleteOrder ==
    /\ pc = "Collecting"
    /\ \E task \in submitted :
          /\ futures[task] = "done"
          /\ ~Collected(raw, task)
          /\ \E site \in SitesMet(SitesCtl, task) : FetchOne(task, site)
          /\ order' = Append(order, task)
    /\ UNCHANGED << pc, hour, today, file, file0, fileWrites, submitted,
                    game_alerts, failed_urls, apiKey, payload, sendCalls,
                    success, exitCode, runs >>
    /\ UNCHANGED << robots_cache, robots_reads, futures, unitVars, delivered >>

RobotsCheck == RobotsCheckFrom(SitesCtl)
RobotsCheckDay == RobotsCheckFrom(SitesDay)

FetchComplete == FetchCompleteFrom(SitesCtl)
FetchCompleteDay == FetchCompleteFrom(SitesDay)

EvaluateWithoutBarrier ==
    /\ pc = "Collecting"
    /\ LET result == EvaluateGames(raw, Len(GAMES))
       IN  /\ game_alerts' = result.game_alerts
           /\ failed_urls' = result.failed_urls
    /\ pc' = "Deciding"
    /\ UNCHANGED << hour, today, file, file0, fileWrites, submitted, raw,
                    apiKey, payload, sendCalls, success, exitCode, runs >>
    /\ UNCHANGED << poolVars, unitVars, delivered >>
\* lines 148-206: the pool is left once every future is done; the loop runs
Evaluate ==
    /\ pc = "Collecting"
    /\ \A task \in submitted : Collected(raw, task)
    /\ LET result == EvaluateGames(raw, Len(GAMES))
       IN  /\ game_alerts' = result.game_alerts
           /\ failed_urls' = result.failed_urls
    /\ pc' = "Deciding"
    /\ UNCHANGED << hour, today, file, file0, fileWrites, submitted, raw,
                    apiKey, payload, sendCalls, success, exitCode, runs >>
    /\ UNCHANGED << poolVars, unitVars, delivered >>

\* lines 208-210
Decide ==
    /\ pc = "Deciding"
    /\ IF game_alerts = << >> /\ failed_urls = << >>
       THEN Exit(0)
       ELSE pc' = "Notifying" /\ UNCHANGED exitCode
    /\ UNCHANGED << hour, today, file, file0, fileWrites, submitted, raw,
                    game_alerts, failed_urls, apiKey, payload, sendCalls,
                    success, runs >>
    /\ UNCHANGED << poolVars, unitVars, delivered >>

\* lines 212-219: ResendEmailNotifier() reads os.environ["RESEND_API_KEY"]
\* (notifier.py line 45), a KeyError when it is not set; then the message
Notify ==
    /\ pc = "Notifying"
    /\ \E present \in BOOLEAN :
          /\ apiKey' = << present >>
          /\ IF present
             THEN /\ payload' = << build_ticket_alert_payload(
                                      RECIPIENT_EMAIL, game_alerts, failed_urls) >>
                  /\ pc' = "Sending"
                  /\ UNCHANGED exitCode
             ELSE Exit(1) /\ UNCHANGED payload
    /\ UNCHANGED << hour, today, file, file0, fileWrites, submitted, raw,
                    game_alerts, failed_urls, sendCalls, success, runs >>
    /\ UNCHANGED << poolVars, unitVars, delivered >>

\* line 220: notifier.send returns True or False; an exception it raised
\* would end main with a traceback
Send ==
    /\ pc = "Sending"
    /\ \E delivery \in Deliveries :
          LET r == ResendEmailNotifier_send(delivery)
          IN  IF r.kind = "returned"
              THEN /\ success' = << r.value >>
                   /\ pc' = "Sent"
                   /\ UNCHANGED exitCode
              ELSE Exit(1) /\ UNCHANGED success
    /\ sendCalls' = sendCalls + 1
    /\ UNCHANGED << hour, today, file, file0, fileWrites, submitted, raw,
                    game_alerts, failed_urls, apiKey, payload, runs >>
    /\ UNCHANGED << poolVars, unitVars, delivered >>

FinishAlwaysCounts ==
    /\ pc = "Sent"
    /\ file' = increment_daily_count(file, today)
    /\ fileWrites' = fileWrites + 1
    /\ delivered' = delivered + (IF success[1] THEN 1 ELSE 0)
    /\ Exit(IF success[1] THEN 0 ELSE 1)
    /\ UNCHANGED << hour, today, file0, submitted, raw, game_alerts,
                    failed_urls, apiKey, payload, sendCalls, success, runs >>
    /\ UNCHANGED << poolVars, unitVars >>
\* lines 222-227
Finish ==
    /\ pc = "Sent"
    /\ IF success[1]
       THEN /\ file' = increment_daily_count(file, today)
            /\ fileWrites' = fileWrites + 1
            /\ delivered' = delivered + 1
            /\ Exit(0)
       ELSE /\ Exit(1)
            /\ UNCHANGED << file, fileWrites, delivered >>
    /\ UNCHANGED << hour, today, file0, submitted, raw, game_alerts,
                    failed_urls, apiKey, payload, sendCalls, success, runs >>
    /\ UNCHANGED << poolVars, unitVars >>

\* the scheduler starts the next run: a new process, the state file kept
StartRun(bound, hours, days) ==
    /\ pc = "Done"
    /\ runs < bound
    /\ runs' = runs + 1
    /\ pc' = "WindowCheck"
    /\ hour' \in hours
    /\ today' \in days
    /\ delivered' = (IF today' = today THEN delivered ELSE 0)
    /\ file0' = file
    /\ fileWrites' = 0
    /\ submitted' = {}
    /\ raw' = << >>
    /\ game_alerts' = << >>
    /\ failed_urls' = << >>
    /\ apiKey' = << >>
    /\ payload' = << >>
    /\ sendCalls' = 0
    /\ success' = << >>
    /\ exitCode' = << >>
    /\ robots_cache' = << >>
    /\ robots_reads' = [ d \in Domains |-> 0 ]
    /\ order' = << >>
    /\ futures' = << >>
    /\ UNCHANGED file
    /\ UNCHANGED unitVars

\* the next run of the same day, before or inside the alert window
NewRunSameDay == StartRun(MaxDayRuns, DayHours, {today})

\* no fetch_ticket_prices call is under way
FetchIdle ==
    [ pc |-> "idle", renders |-> 0, navs |-> 0, elapsed |-> 0, scrape |-> << >> ]

RunStart(hours, files) ==
    /\ pc = "WindowCheck"
    /\ hour \in hours
    /\ today = Days[2]
    /\ file \in files
    /\ file0 = file
    /\ fileWrites = 0
    /\ submitted = {}
    /\ raw = << >>
    /\ game_alerts = << >>
    /\ failed_urls = << >>
    /\ apiKey = << >>
    /\ payload = << >>
    /\ sendCalls = 0
    /\ success = << >>
    /\ exitCode = << >>
    /\ runs = 1
    /\ robots_cache = << >>
    /\ robots_reads = [ d \in Domains |-> 0 ]
    /\ order = << >>
    /\ futures = << >>
    /\ call = << >>
    /\ ret = << >>
    /\ fetch = FetchIdle
    /\ delivered = 0

\* controller runs: one run under every clock and every state file earlier
\* runs, of the day or of the day before, can have left; two kinds of site
Init ==
    RunStart(Hours,
             { Absent, Corrupt }
             \cup { StateJson(d, c) : d \in { Days[1], Days[2] }, c \in InitCounts })

Next ==
    \/ WindowCheck
    \/ CapCheck
    \/ Submit
    \/ RobotsRead
    \/ RobotsCheck
    \/ Render
    \/ FetchComplete
    \/ Evaluate
    \/ Decide
    \/ Notify
    \/ Send
    \/ Finish

Spec == Init /\ [][Next]_vars

\* evaluation runs: one run inside the window whose six fetches, each on any
\* kind of site, have returned and whose results main has stored (line 147
\* has run for the last future)
InitEval ==
    /\ pc = "Collecting"
    /\ hour = ALERT_WINDOW_START
    /\ today = Days[2]
    /\ file = Absent
    /\ file0 = Absent
    /\ fileWrites = 0
    /\ submitted = Tasks
    /\ futures = [ task \in Tasks |-> "done" ]
    /\ \E world \in [ Tasks -> Sites ] :
          /\ raw = [ name \in GameNames |->
                       [ portal \in Portals |->
                           LET task == CHOOSE t \in Tasks :
                                           t.name = name /\ t.portal = portal
                           IN  FetchTicketPrices(task.url, world[task]) ] ]
          /\ robots_cache =
                 [ url \in { CacheKey(task.url) : task \in Tasks } |->
                     LET task == CHOOSE t \in Tasks : CacheKey(t.url) = url
                     IN  IsAllowedByRobots(world[task]) ]
    /\ robots_reads =
           [ d \in Domains |-> Cardinality({ task \in Tasks : DomainOf(task.url) = d }) ]
    /\ order = << >>
    /\ game_alerts = << >>
    /\ failed_urls = << >>
    /\ apiKey = << >>
    /\ payload = << >>
    /\ sendCalls = 0
    /\ success = << >>
    /\ exitCode = << >>
    /\ runs = 1
    /\ call = << >>
    /\ ret = << >>
    /\ fetch = FetchIdle
    /\ delivered = 0

NextEval ==
    \/ Evaluate
    \/ Decide
    \/ Notify
    \/ Send
    \/ Finish

SpecEval == InitEval /\ [][NextEval]_vars

\* completion orders: one run inside the window, two kinds of site
InitOrder == RunStart({ ALERT_WINDOW_START }, { Absent })

NextOrder ==
    \/ WindowCheck
    \/ CapCheck
    \/ Submit
    \/ RobotsRead
    \/ RobotsCheck
    \/ Render
    \/ FetchCompleteOrder
    \/ Evaluate
    \/ Decide
    \/ Notify
    \/ Send
    \/ Finish

SpecOrder == InitOrder /\ [][NextOrder]_vars

\* the runs of one calendar day, one after the other, from an absent state
\* file
InitDay == RunStart(DayHours, { Absent })

NextDay ==
    \/ WindowCheck
    \/ CapCheck
    \/ Submit
    \/ RobotsRead
    \/ RobotsCheckDay
    \/ Render
    \/ FetchCompleteDay
    \/ Evaluate
    \/ Decide
    \/ Notify
    \/ Send
    \/ Finish
    \/ NewRunSameDay

SpecDay == InitDay /\ [][NextDay]_vars

(***************************************************************************)
(* Functions called on their own, on every input of a bounded set: the     *)
(* call is drawn by InitUnit, an action runs the function, ret holds what  *)
(* the call returned or raised.                                            *)
(***************************************************************************)
UnitUrl == GAMES[1].p1travel_url

\* prices below, at, inside, and above the two thresholds
PriceGrid == { 50, THRESHOLD_LOW - 1, THRESHOLD_LOW, THRESHOLD_LOW + 1, 300,
              THRESHOLD_HIGH - 1, THRESHOLD_HIGH, THRESHOLD_HIGH + 1 }

\* what raw.get(name, {}).get(portal) can hold: nothing, a failed fetch, or
\* a rendered page with any prices of the grid
ResultInputs ==
    { NoResult }
    \cup { TicketResult(UnitUrl, << >>, e) :
              e \in { "Blocked by robots.txt - skipping to stay compliant",
                      "Page load timed out: Timeout 30000ms exceeded", "" } }
    \cup { TicketResult(UnitUrl, SortedSeq(S), NoError) : S \in SUBSET PriceGrid }

CheapestCalls == { [ fn |-> "cheapest_in_range", arg |-> r ] : r \in ResultInputs }

MaxPieces == 4

\* what the page texts are put together from, nothing standing between two
\* pieces: the marks in capitals and in mixed case, a blank, numbers below,
\* at, inside and at the end of the sanity bounds, a comma, a point, a letter
Pieces ==
    { << "€" >>, << "E", "U", "R" >>, << "e", "U", "r" >>, << " " >>,
      << "9" >>, << "1", "0" >>, << "1", "5", "0" >>,
      << "5", "0", "0", "0", "0" >>, << "," >>, << "." >>, << "o" >> }

RECURSIVE Texts(_)
\* the page texts of at most n pieces
Texts(n) ==
    IF n = 0 THEN { << >> }
    ELSE Texts(n - 1) \cup { t \o piece : t \in Texts(n - 1), piece \in Pieces }

ExtractCalls ==
    { [ fn |-> "_extract_prices_from_text", arg |-> t ] : t \in Texts(MaxPieces) }

Calling(fn) == call # << >> /\ call[1].fn = fn /\ ret = << >>
Called(fn) == call # << >> /\ call[1].fn = fn /\ ret # << >>

\* nothing of a run moves while a function is called on its own
RunUnchanged ==
    UNCHANGED << pc, hour, today, file, file0, fileWrites, submitted, raw,
                 game_alerts, failed_urls, apiKey, payload, sendCalls,
                 success, exitCode, runs, order, futures, delivered >>

CallCheapestInRange ==
    /\ Calling("cheapest_in_range")
    /\ ret' = << Returned(cheapest_in_range(call[1].arg)) >>
    /\ RunUnchanged
    /\ UNCHANGED << call, fetch, robots_cache, robots_reads >>

CallExtractPrices ==
    /\ Calling("_extract_prices_from_text")
    /\ ret' = << extract_prices_from_text(call[1].arg) >>
    /\ RunUnchanged
    /\ UNCHANGED << call, fetch, robots_cache, robots_reads >>

\* every way a site can answer one fetch
SettleFaults ==
    { NoneRaises }
    \cup { Raises(kind, SettleCalls[i]) :
              kind \in { "timeout", "fault" }, i \in 1..Len(SettleCalls) }
FetchSites ==
    { [ Site(robots, nav1, nav2, text, message)
            EXCEPT !.launch = launch, !.settle = settle ] :
        robots \in { "allow", "disallow", "unreachable" },
        launch \in { "ok", "timeout", "fault" },
        nav1 \in { "ok", "timeout", "fault" },
        nav2 \in { "ok", "timeout", "fault" },
        settle \in SettleFaults,
        text \in { << >>, << 600, 150, 9 >> },
        message \in { "", "net::ERR_NAME_NOT_RESOLVED" } }

FetchCalls ==
    { [ fn |-> "fetch_ticket_prices", arg |-> [ url |-> url, site |-> site ] ] :
        url \in { GAMES[1].p1travel_url, GAMES[1].champions_travel_url },
        site \in FetchSites }

\* the time a navigation that does not time out can take
NavTimes == { 1000, PAGE_LOAD_TIMEOUT_MS }

FetchAt(position) ==
    Calling("fetch_ticket_prices") /\ fetch.pc = position

\* scraper.py lines 146-157 and 104-119: the robots.txt check; the fetch
\* ends here when the check forbids it; otherwise the browser is launched
\* and the page set up, inside the try of fetch_ticket_prices, whose except
\* clauses take what that raises
FetchRobots ==
    /\ FetchAt("idle")
    /\ LET url  == call[1].arg.url
           site == call[1].arg.site
       IN  /\ robots_cache' = CacheAfter(robots_cache, url, site)
           /\ robots_reads' = ReadsAfter(robots_reads, robots_cache, url)
           /\ IF RobotsAnswer(robots_cache, url, site)
              THEN /\ fetch' =
                          IF site.launch = "ok"
                          THEN [ fetch EXCEPT !.pc = "nav1", !.renders = @ + 1 ]
                          ELSE [ fetch EXCEPT !.pc = "except", !.renders = @ + 1,
                                              !.scrape = << [ kind |-> site.launch,
                                                              message |-> site.message ] >> ]
                   /\ UNCHANGED ret
              ELSE /\ fetch' = [ fetch EXCEPT !.pc = "done" ]
                   /\ ret' = << Returned(Blocked(url)) >>
    /\ RunUnchanged
    /\ UNCHANGED call

\* lines 121-122: page.goto(url, wait_until="networkidle")
FetchNav1 ==
    /\ FetchAt("nav1")
    /\ LET site == call[1].arg.site
       IN  \E d \in NavTimes :
              fetch' =
                  IF site.nav1 = "ok"
                  THEN [ fetch EXCEPT !.pc = "settle", !.navs = @ + 1,
                                      !.elapsed = @ + d ]
                  ELSE IF site.nav1 = "timeout"
                  THEN [ fetch EXCEPT !.pc = "nav2", !.navs = @ + 1,
                                      !.elapsed = @ + PAGE_LOAD_TIMEOUT_MS ]
                  ELSE [ fetch EXCEPT !.pc = "except", !.navs = @ + 1,
                                      !.elapsed = @ + d,
                                      !.scrape = << [ kind |-> "fault",
                                                      message |-> site.message ] >> ]
    /\ RunUnchanged
    /\ UNCHANGED << call, ret, robots_cache, robots_reads >>

\* lines 123-125: the first navigation raised PWTimeout;
\* page.goto(url, wait_until="domcontentloaded"), outside any try of
\* _scrape_with_playwright
FetchNav2 ==
    /\ FetchAt("nav2")
    /\ LET site == call[1].arg.site
       IN  \E d \in NavTimes :
              fetch' =
                  IF site.nav2 = "ok"
                  THEN [ fetch EXCEPT !.pc = "settle", !.navs = @ + 1,
                                      !.elapsed = @ + d ]
                  ELSE IF site.nav2 = "timeout"
                  THEN [ fetch EXCEPT !.pc = "except", !.navs = @ + 1,
                                      !.elapsed = @ + PAGE_LOAD_TIMEOUT_MS,
                                      !.scrape = << [ kind |-> "timeout",
                                                      message |-> site.message ] >> ]
                  ELSE [ fetch EXCEPT !.pc = "except", !.navs = @ + 1,
                                      !.elapsed = @ + d,
                                      !.scrape = << [ kind |-> "fault",
                                                      message |-> site.message ] >> ]
    /\ RunUnchanged
    /\ UNCHANGED << call, ret, robots_cache, robots_reads >>

\* lines 127-133 and 157-171: the settle wait, the scroll and its wait of
\* 1000 ms, the text of the page, the prices, the outcome; when one of the
\* calls raises, the fixed waits that ended before it have passed and the
\* except clauses of fetch_ticket_prices come next
FetchSettle ==
    /\ FetchAt("settle")
    /\ LET site == call[1].arg.site
           r    == [ kind |-> "text", text |-> site.text ]
       IN  IF site.settle.raises = "none"
           THEN /\ fetch' = [ fetch EXCEPT !.pc = "done",
                                           !.elapsed = @ + JS_SETTLE_WAIT_MS + 1000,
                                           !.scrape = << r >> ]
                /\ ret' = << FetchOutcome(call[1].arg.url, r) >>
           ELSE /\ fetch' = [ fetch EXCEPT !.pc = "except",
                                           !.elapsed = @ + WaitedBefore(site.settle.at),
                                           !.scrape = << [ kind |-> site.settle.raises,
                                                           message |-> site.message ] >> ]
                /\ UNCHANGED ret
    /\ RunUnchanged
    /\ UNCHANGED << call, robots_cache, robots_reads >>

\* lines 173-180: the except clauses of fetch_ticket_prices
FetchExcept ==
    /\ FetchAt("except")
    /\ fetch' = [ fetch EXCEPT !.pc = "done" ]
    /\ ret' = << FetchOutcome(call[1].arg.url, fetch.scrape[1]) >>
    /\ RunUnchanged
    /\ UNCHANGED << call, robots_cache, robots_reads >>

SendCalls == { [ fn |-> "ResendEmailNotifier.send", arg |-> d ] : d \in Deliveries }

CallSend ==
    /\ Calling("ResendEmailNotifier.send")
    /\ ret' = << ResendEmailNotifier_send(call[1].arg) >>
    /\ RunUnchanged
    /\ UNCHANGED << call, fetch, robots_cache, robots_reads >>

Calls == CheapestCalls \cup ExtractCalls \cup FetchCalls \cup SendCalls

\* the modules are imported, main() is not run
InitUnit ==
    /\ pc = "Imported"
    /\ hour = ALERT_WINDOW_START
    /\ today = Days[2]
    /\ file = Absent
    /\ file0 = Absent
    /\ fileWrites = 0
    /\ submitted = {}
    /\ raw = << >>
    /\ game_alerts = << >>
    /\ failed_urls = << >>
    /\ apiKey = << >>
    /\ payload = << >>
    /\ sendCalls = 0
    /\ success = << >>
    /\ exitCode = << >>
    /\ runs = 0
    /\ robots_cache = << >>
    /\ robots_reads = [ d \in Domains |-> 0 ]
    /\ order = << >>
    /\ futures = << >>
    /\ call \in { << c >> : c \in Calls }
    /\ ret = << >>
    /\ fetch = FetchIdle
    /\ delivered = 0

NextUnit ==
    \/ CallCheapestInRange
    \/ CallExtractPrices
    \/ FetchRobots
    \/ FetchNav1
    \/ FetchNav2
    \/ FetchSettle
    \/ FetchExcept
    \/ CallSend

SpecUnit == InitUnit /\ [][NextUnit]_vars

\* step by step, fetch_ticket_prices ends as FetchTicketPrices says
FetchStepsAgree ==
    Called("fetch_ticket_prices") =>
        /\ ret[1] = Returned(FetchTicketPrices(call[1].arg.url, call[1].arg.site))
        /\ fetch.scrape # << >> =>
               fetch.scrape[1] = ScrapeWithPlaywright(call[1].arg.site)

(***************************************************************************)
(* Properties of the run controller (checked under Spec)                   *)
(***************************************************************************)
InWindow == ALERT_WINDOW_START <= hour /\ hour < ALERT_WINDOW_END

\* the count the state file held for today when the run started
StoredToday ==
    IF file0.kind = "json" /\ file0.date = today THEN file0.count ELSE 0

\* C1: a run whose local hour is outside [ALERT_WINDOW_START, ALERT_WINDOW_END)
\* issues no fetch task, attempts no delivery, does not write the state file,
\* stops after the window check and ends with exit code 0.
OutsideWindowExitsClean ==
    ~InWindow =>
        /\ pc \in { "WindowCheck", "Done" }
        /\ submitted = {}
        /\ sendCalls = 0
        /\ fileWrites = 0 /\ file = file0
        /\ pc = "Done" => exitCode = << 0 >>

\* a run at hour ALERT_WINDOW_END (the excluded end of the window) has ended
OutsideWindowWitness ==
    pc = "Done" /\ hour = ALERT_WINDOW_END /\ exitCode = << 0 >>

\* C2: a run inside the window that finds today's stored count at or above
\* MAX_ALERTS_PER_DAY issues no fetch task, attempts no delivery, leaves the
\* state file unchanged and ends with exit code 0.
CapReachedExitsClean ==
    (InWindow /\ StoredToday >= MAX_ALERTS_PER_DAY) =>
        /\ pc \in { "WindowCheck", "CapCheck", "Done" }
        /\ submitted = {}
        /\ sendCalls = 0
        /\ fileWrites = 0 /\ file = file0
        /\ pc = "Done" => exitCode = << 0 >>

\* a run inside the window has ended at the cap check, the stored count for
\* today being MAX_ALERTS_PER_DAY
CapReachedWitness ==
    /\ pc = "Done" /\ InWindow /\ submitted = {}
    /\ file0 = StateJson(today, MAX_ALERTS_PER_DAY)
    /\ exitCode = << 0 >>

\* C3: a run whose notifier.send returned False ends with exit code 1 and
\* the state file exactly as it was when the run started.
FailedSendKeepsQuota ==
    success = << FALSE >> =>
        /\ fileWrites = 0 /\ file = file0
        /\ pc = "Done" => exitCode = << 1 >>

\* a run has ended after a send that returned False, with a stored count
FailedSendWitness ==
    /\ pc = "Done" /\ sendCalls = 1 /\ success = << FALSE >>
    /\ file0.kind = "json" /\ file0.date = today

\* C4: the state file is written at most once per run and only after a send
\* that returned True; it then holds today's date and the count stored for
\* today at the start of the run (0 if absent or of another date) plus one.
WriteOnceAfterSuccess ==
    /\ fileWrites <= 1
    /\ fileWrites = 0 => file = file0
    /\ fileWrites = 1 =>
          /\ success = << TRUE >>
          /\ file = [ kind |-> "json", date |-> today, count |-> StoredToday + 1 ]

\* a count stored for an earlier day was replaced by today's first send
WriteOnceWitness ==
    /\ fileWrites = 1
    /\ file0.kind = "json" /\ file0.date # today
    /\ file0.count = MAX_ALERTS_PER_DAY
    /\ file.count = 1

\* C5: the case of the claim does not arise. The decision step is never
\* reached with both lists empty, because every game yields an alert entry
\* or two failure entries.
DecisionNeverEmpty ==
    pc = "Deciding" => (game_alerts # << >> \/ failed_urls # << >>)

\* C6: a run ends with a non-zero exit status only if notifier.send was
\* called and returned False.
NonZeroExitOnlyOnFailedSend ==
    (pc = "Done" /\ exitCode # << 0 >>) =>
        (sendCalls = 1 /\ success = << FALSE >>)

(***************************************************************************)
(* Properties of the evaluation (checked under SpecEval)                   *)
(***************************************************************************)
\* the evaluation loop has run in this run
Evaluated ==
    pc \in { "Deciding", "Notifying", "Sending", "Sent", "Done" } /\ submitted # {}

\* the outcome is a Failure: fetch_ticket_prices set an error
IsFailure(result) == result.error # NoError

InRangePrices(result) ==
    { result.prices[i] : i \in { j \in 1..Len(result.prices) :
          THRESHOLD_LOW <= result.prices[j] /\ result.prices[j] <= THRESHOLD_HIGH } }

\* the outcome is a Success with a price within [THRESHOLD_LOW, THRESHOLD_HIGH]
HasInRange(result) == ~IsFailure(result) /\ InRangePrices(result) # {}

LeastInRange(result) ==
    CHOOSE x \in InRangePrices(result) : \A y \in InRangePrices(result) : x <= y

OtherPortal(portal) == IF portal = P1 THEN CHAMPS ELSE P1

AlertsOf(name) ==
    { i \in 1..Len(game_alerts) : game_alerts[i].game_name = name }

FailuresOf(name, portal) ==
    { i \in 1..Len(failed_urls) :
          failed_urls[i].game_name = name /\ failed_urls[i].portal = portal }

\* both outcomes of the game are Successes and neither has an in-range price
NothingInRange(name) ==
    \A portal \in Portals :
        ~IsFailure(raw[name][portal]) /\ ~HasInRange(raw[name][portal])

\* C7 as stated: a game whose two outcomes are Successes without an in-range
\* price is dropped, with no alert entry and no failure entry.
NothingInRangeDropped ==
    Evaluated =>
        \A name \in GameNames :
            NothingInRange(name) =>
                /\ AlertsOf(name) = {}
                /\ \A portal \in Portals : FailuresOf(name, portal) = {}

\* C7 as amended: a game whose two outcomes are Successes without an in-range
\* price has no alert entry, and exactly one failure entry for each of its
\* portals, whose reason says that no price was found (empty price set) or
\* that none was in range.
NothingInRangeReported ==
    Evaluated =>
        \A name \in GameNames :
            NothingInRange(name) =>
                /\ AlertsOf(name) = {}
                /\ \A portal \in Portals :
                      /\ Cardinality(FailuresOf(name, portal)) = 1
                      /\ \A i \in FailuresOf(name, portal) :
                            failed_urls[i].reason =
                                IF raw[name][portal].prices = << >>
                                THEN "Page loaded but no prices found"
                                ELSE "Prices found but none in EUR100-EUR500"

\* the first game was evaluated with an empty price set from P1 Travel and
\* prices all out of range from Champions Travel
NothingInRangeWitness ==
    /\ Evaluated
    /\ NothingInRange(GAMES[1].name)
    /\ raw[GAMES[1].name][P1].prices = << >>
    /\ raw[GAMES[1].name][CHAMPS].prices # << >>

\* C8: every portal whose outcome is a Failure has exactly one failure entry,
\* whatever the other portal did; when the other portal has an in-range
\* price, the game also has one alert entry, whose comparison names the
\* other portal alone.
FailureAlwaysReported ==
    Evaluated =>
        \A name \in GameNames, portal \in Portals :
            IsFailure(raw[name][portal]) =>
                /\ Cardinality(FailuresOf(name, portal)) = 1
                /\ HasInRange(raw[name][OtherPortal(portal)]) =>
                      /\ Cardinality(AlertsOf(name)) = 1
                      /\ \A i \in AlertsOf(name) :
                            game_alerts[i].comparison =
                                IF portal = P1 THEN "champs_only" ELSE "p1_only"

\* the first game was evaluated with a P1 Travel Failure and an in-range
\* Champions Travel price, the last with two Failures
FailureReportedWitness ==
    /\ Evaluated
    /\ IsFailure(raw[GAMES[1].name][P1])
    /\ HasInRange(raw[GAMES[1].name][CHAMPS])
    /\ IsFailure(raw[GAMES[3].name][P1])
    /\ IsFailure(raw[GAMES[3].name][CHAMPS])

\* C9: a game has at most one alert entry, and has one iff a portal has an
\* in-range price; its comparison is both iff both portals have one, and
\* the single-portal value of the only portal that has one otherwise.
ComparisonMatchesInRange ==
    Evaluated =>
        \A name \in GameNames :
            LET a == HasInRange(raw[name][P1])
                b == HasInRange(raw[name][CHAMPS])
            IN  /\ Cardinality(AlertsOf(name)) <= 1
                /\ AlertsOf(name) # {} <=> (a \/ b)
                /\ \A i \in AlertsOf(name) :
                      /\ game_alerts[i].comparison = "both" <=> (a /\ b)
                      /\ game_alerts[i].comparison = "p1_only" <=> (a /\ ~b)
                      /\ game_alerts[i].comparison = "champs_only" <=> (~a /\ b)

\* the three games were evaluated with both, one and no in-range portal
ComparisonWitness ==
    /\ Evaluated
    /\ HasInRange(raw[GAMES[1].name][P1]) /\ HasInRange(raw[GAMES[1].name][CHAMPS])
    /\ HasInRange(raw[GAMES[2].name][P1]) /\ ~HasInRange(raw[GAMES[2].name][CHAMPS])
    /\ ~HasInRange(raw[GAMES[3].name][P1]) /\ ~HasInRange(raw[GAMES[3].name][CHAMPS])
    /\ Len(game_alerts) = 2

\* C10: in an alert entry whose comparison is both, with least in-range
\* prices a (P1 Travel) and b (Champions Travel), the cheaper portal is
\* P1 Travel iff a <= b and Champions Travel otherwise, and the saving is
\* the absolute difference of a and b.
CheaperAndSaving ==
    Evaluated =>
        \A i \in 1..Len(game_alerts) :
            game_alerts[i].comparison = "both" =>
                LET a == LeastInRange(raw[game_alerts[i].game_name][P1])
                    b == LeastInRange(raw[game_alerts[i].game_name][CHAMPS])
                IN  /\ game_alerts[i].p1_best = a
                    /\ game_alerts[i].champs_best = b
                    /\ game_alerts[i].cheaper_portal = P1 <=> a <= b
                    /\ game_alerts[i].cheaper_portal = CHAMPS <=> a > b
                    /\ game_alerts[i].saving >= 0
                    /\ game_alerts[i].saving \in { a - b, b - a }

\* the games were evaluated with a tie, P1 Travel cheaper and Champions
\* Travel cheaper
CheaperWitness ==
    /\ Evaluated
    /\ Len(game_alerts) = 3
    /\ \A i \in 1..3 : game_alerts[i].comparison = "both"
    /\ game_alerts[1].p1_best = game_alerts[1].champs_best
    /\ game_alerts[1].saving = 0 /\ game_alerts[1].cheaper_portal = P1
    /\ game_alerts[2].p1_best < game_alerts[2].champs_best
    /\ game_alerts[3].p1_best > game_alerts[3].champs_best

\* C11 as stated: in an alert entry whose comparison is p1_only or
\* champs_only, the cheaper portal and the saving are both absent (None).
SinglePortalFieldsAbsent ==
    Evaluated =>
        \A i \in 1..Len(game_alerts) :
            game_alerts[i].comparison \in { "p1_only", "champs_only" } =>
                /\ game_alerts[i].cheaper_portal \notin Portals
                /\ game_alerts[i].saving = None

\* C11: the saving of an alert entry is populated exactly when its
\* comparison is both; in an entry whose comparison is p1_only or
\* champs_only the saving is None and the cheaper portal names the one
\* portal that has an in-range price.
SinglePortalNamesOnlyPortal ==
    Evaluated =>
        \A i \in 1..Len(game_alerts) :
            LET entry == game_alerts[i]
            IN  /\ entry.saving # None <=> entry.comparison = "both"
                /\ entry.cheaper_portal \in Portals
                /\ entry.comparison = "p1_only" =>
                       /\ entry.cheaper_portal = P1
                       /\ HasInRange(raw[entry.game_name][P1])
                       /\ entry.champs_best = None
                /\ entry.comparison = "champs_only" =>
                       /\ entry.cheaper_portal = CHAMPS
                       /\ HasInRange(raw[entry.game_name][CHAMPS])
                       /\ entry.p1_best = None

\* the games were evaluated with only P1 Travel in range, only Champions
\* Travel in range, and both in range
SinglePortalWitness ==
    /\ Evaluated
    /\ Len(game_alerts) = 3
    /\ game_alerts[1].comparison = "p1_only"
    /\ game_alerts[2].comparison = "champs_only"
    /\ game_alerts[3].comparison = "both"
    /\ game_alerts[3].saving > 0

(***************************************************************************)
(* Properties of the functions called on their own (checked under SpecUnit) *)
(***************************************************************************)
\* C12: cheapest_in_range returns the least price p of the outcome with
\* THRESHOLD_LOW <= p <= THRESHOLD_HIGH, both ends included, and returns
\* None exactly when the outcome is missing, has an error, has no prices,
\* or has no price in that range.
CheapestIsLeastInRange ==
    Called("cheapest_in_range") =>
        LET result == call[1].arg
            best   == ret[1].value
            nothing ==
                IF result = NoResult THEN TRUE
                ELSE \/ result.error # NoError
                     \/ result.prices = << >>
                     \/ InRangePrices(result) = {}
        IN  /\ ret[1].kind = "returned"
            /\ best = None <=> nothing
            /\ ~nothing =>
                   /\ best \in InRangePrices(result)
                   /\ \A p \in InRangePrices(result) : best <= p

\* the function returned THRESHOLD_LOW for an outcome that also holds a
\* price just below it and the price THRESHOLD_HIGH
CheapestWitness ==
    /\ Called("cheapest_in_range")
    /\ ret[1] = Returned(THRESHOLD_LOW)
    /\ call[1].arg.prices = << THRESHOLD_LOW - 1, THRESHOLD_LOW, THRESHOLD_HIGH >>

\* the literals the four patterns match in a text: group 1 of every match
MatchedLiterals(text) == { Group1(text, m) : m \in Matches(text) }

\* the value of a matched literal, in hundredths of a euro
LiteralValue(literal) == FloatOf(StripCommas(literal)).value
\* a matched literal can be parsed: something is left without its commas
Parses(literal) == StripCommas(literal) # << >>

\* C13: for every text the price extractor returns, without raising, a
\* strictly ascending sequence whose values all lie within [10, 50000]: a
\* matched literal that cannot be parsed or whose value is outside the
\* bound is skipped, the value of every other matched literal is returned.
ExtractedAscendingInBounds ==
    Called("_extract_prices_from_text") =>
        /\ ret[1].kind = "returned"
        /\ LET prices == ret[1].value
           IN  /\ \A i \in 1..Len(prices) :
                      10 * 100 <= prices[i] /\ prices[i] <= 50000 * 100
               /\ \A i \in 1..(Len(prices) - 1) : prices[i] < prices[i + 1]
               /\ { prices[i] : i \in 1..Len(prices) } =
                      { LiteralValue(literal) : literal \in
                          { l \in MatchedLiterals(call[1].arg) :
                                /\ Parses(l)
                                /\ 10 * 100 <= LiteralValue(l)
                                /\ LiteralValue(l) <= 50000 * 100 } }

\* the extractor has returned 150 alone for the text ",€150€": the comma
\* before the first mark was matched and skipped, 150 was matched twice
\* (after the first mark and before the second) and returned once
ExtractWitness ==
    /\ Called("_extract_prices_from_text")
    /\ call[1].arg = << ",", "€", "1", "5", "0", "€" >>
    /\ ret[1] = Returned(<< 150 * 100 >>)

\* C14: a fetch starts a render if and only if the robots.txt check permits
\* it, an unreachable robots.txt counting as permitted: when robots.txt
\* disallows the url the fetch returns a Failure without ever launching the
\* browser or navigating, and in every other case the browser is launched.
RenderIffPermitted ==
    (call # << >> /\ call[1].fn = "fetch_ticket_prices") =>
        LET site == call[1].arg.site
        IN  /\ fetch.renders > 0 => site.robots # "disallow"
            /\ fetch.navs > 0 => fetch.renders > 0
            /\ ret # << >> =>
                   /\ ret[1].kind = "returned"
                   /\ fetch.renders = 1 <=> site.robots \in { "allow", "unreachable" }
                   /\ site.robots = "disallow" =>
                          /\ fetch.renders = 0 /\ fetch.navs = 0
                          /\ IsFailure(ret[1].value)
                          /\ ret[1].value.prices = << >>

\* a fetch whose robots.txt was unreachable has rendered the page and
\* returned its prices
RenderWitness ==
    /\ Called("fetch_ticket_prices")
    /\ call[1].arg.site.robots = "unreachable"
    /\ fetch.renders = 1 /\ fetch.navs = 1
    /\ ret[1].kind = "returned"
    /\ ret[1].value.prices = << 150, 600 >>

\* rp.read raised during the robots.txt check of the fetch
PolicyFault(site) == site.robots = "unreachable"
\* _scrape_with_playwright raised: while the browser was launched, a
\* navigation fault, a time-out of the second navigation, or a fault or a
\* time-out of a call that follows the navigation
RenderFault(site) ==
    /\ site.robots # "disallow"
    /\ \/ site.launch # "ok"
       \/ site.launch = "ok" /\ site.nav1 = "fault"
       \/ site.launch = "ok" /\ site.nav1 = "timeout" /\ site.nav2 # "ok"
       \/ Settles(site) /\ site.settle.raises # "none"

\* C15 as stated: fetch_ticket_prices never raises, and for every fault
\* raised during the robots.txt check or the render it returns a Failure
\* (error set, no prices).
EveryFaultIsFailure ==
    Called("fetch_ticket_prices") =>
        /\ ret[1].kind = "returned"
        /\ (PolicyFault(call[1].arg.site) \/ RenderFault(call[1].arg.site)) =>
               /\ IsFailure(ret[1].value)
               /\ ret[1].value.prices = << >>

\* C15: fetch_ticket_prices never raises. A fault raised during the
\* robots.txt check is absorbed there: the check counts as permitted and
\* the fetch goes on to render. For every fault raised during the render
\* (a time-out or any other fault) the call returns a Failure: no prices,
\* and as error the time-out reason or the message of the fault.
FaultNeverEscapes ==
    Called("fetch_ticket_prices") =>
        LET site == call[1].arg.site
        IN  /\ ret[1].kind = "returned"
            /\ PolicyFault(site) => fetch.renders = 1
            /\ (PolicyFault(site) /\ ~RenderFault(site)) =>
                   /\ ~IsFailure(ret[1].value)
                   /\ ret[1].value.prices = ExtractPrices(site.text)
            /\ RenderFault(site) =>
                   /\ IsFailure(ret[1].value)
                   /\ ret[1].value.prices = << >>
                   /\ ret[1].value.error \in { TimedOut(site.message), site.message }

\* a fetch whose robots.txt read raised and whose first navigation raised a
\* fault other than a time-out has returned a Failure
FaultWitness ==
    /\ Called("fetch_ticket_prices")
    /\ call[1].arg.site.robots = "unreachable"
    /\ call[1].arg.site.nav1 = "fault"
    /\ call[1].arg.site.message # ""
    /\ ret[1] = Returned(TicketResult(call[1].arg.url, << >>, call[1].arg.site.message))

\* send has returned a Boolean, and False for every fault of the delivery
\* request: requests.post raised, the status is an HTTP error status, the
\* body of the response cannot be read as a JSON object
FaultsGiveFalse ==
    Called("ResendEmailNotifier.send") =>
        LET delivery == call[1].arg
        IN  /\ ret[1].kind = "returned"
            /\ ret[1].value \in BOOLEAN
            /\ delivery.kind # "response" => ret[1].value = FALSE
            /\ delivery.kind = "response" =>
                   /\ delivery.status \in 400..599 => ret[1].value = FALSE
                   /\ delivery.body \in { "array", "not json" } => ret[1].value = FALSE

\* C16 as stated: ResendEmailNotifier.send never raises, it returns False
\* for every fault of the delivery request, and it returns True only for a
\* response with a success status (2xx).
SendTrueOnlyOnSuccessStatus ==
    /\ FaultsGiveFalse
    /\ Called("ResendEmailNotifier.send") /\ ret[1] = Returned(TRUE) =>
           /\ call[1].arg.kind = "response"
           /\ call[1].arg.status \in 200..299

\* C16, amended: ResendEmailNotifier.send never raises, it returns False
\* for every fault of the delivery request, and it returns True only for a
\* response whose status is not an HTTP error status (not within 400 to
\* 599, which takes in 1xx and 3xx as well as 2xx).
SendNeverRaises ==
    /\ FaultsGiveFalse
    /\ Called("ResendEmailNotifier.send") /\ ret[1] = Returned(TRUE) =>
           /\ call[1].arg.kind = "response"
           /\ call[1].arg.status \notin 400..599

\* send has returned True for a response with status 304 (not a success
\* status, not an error status) whose body is a JSON object
SendWitness ==
    /\ Called("ResendEmailNotifier.send")
    /\ call[1].arg = Response(304, "object with id")
    /\ ret[1] = Returned(TRUE)

(***************************************************************************)
(* Properties of the thread pool                                           *)
(***************************************************************************)
\* the fetch tasks of the run that have not completed yet
Running == { task \in submitted : ~Collected(raw, task) }

\* C17: the evaluation of the games, and with it the building of the
\* alert and failure lists, starts only after every one of the
\* 2 x Len(GAMES) fetch tasks has completed: while a task is running both
\* lists are empty, and once the games are evaluated every (game, portal)
\* pair has a recorded outcome.
FanInBarrier ==
    /\ Running # {} => game_alerts = << >> /\ failed_urls = << >>
    /\ Evaluated =>
           /\ Cardinality(submitted) = 2 * Len(GAMES)
           /\ Running = {}
           /\ \A i \in 1..Len(GAMES) : \A portal \in Portals :
                  /\ portal \in DOMAIN raw[GAMES[i].name]
                  /\ raw[GAMES[i].name][portal] # NoResult
                  /\ raw[GAMES[i].name][portal].url \in
                         { GAMES[i].p1travel_url, GAMES[i].champions_travel_url }

\* the games have been evaluated, with alerts and failures, after all six
\* tasks completed
FanInWitness ==
    /\ Evaluated
    /\ Cardinality(submitted) = 6
    /\ Running = {}
    /\ game_alerts # << >>
    /\ failed_urls # << >>

\* the (game, portal) pairs in configured order: the games as in GAMES,
\* P1 Travel before Champions Travel
ConfiguredPairs ==
    [ k \in 1..(2 * Len(GAMES)) |->
        [ game   |-> GAMES[(k + 1) \div 2],
          portal |-> IF k % 2 = 1 THEN P1 ELSE CHAMPS ] ]
OutcomeOf(pair) == raw[pair.game.name][pair.portal]
PairUrl(pair) ==
    IF pair.portal = P1 THEN pair.game.p1travel_url
    ELSE pair.game.champions_travel_url
\* what the outcomes alone make the lists hold
ExpectedFailures == SelectSeq(ConfiguredPairs, LAMBDA pair : ~HasInRange(OutcomeOf(pair)))
ExpectedAlerts ==
    SelectSeq(GAMES, LAMBDA game :
        HasInRange(raw[game.name][P1]) \/ HasInRange(raw[game.name][CHAMPS]))
ReasonOf(result) ==
    IF Truthy(result.error) THEN result.error
    ELSE IF result.prices = << >> THEN "Page loaded but no prices found"
    ELSE "Prices found but none in EUR100-EUR500"
BestOf(result) == IF HasInRange(result) THEN LeastInRange(result) ELSE None

\* C18: the result of a run does not depend on the order in which the
\* fetch tasks complete: whatever that order, the failure list holds, in
\* the configured order of the games and P1 Travel before Champions
\* Travel, one entry for each outcome without an in-range price, and the
\* alert list holds, in the configured order of the games, one entry for
\* each game with an in-range price, their contents being fixed by the
\* outcomes alone.
OrderIndependent ==
    Evaluated =>
        /\ Len(order) = 2 * Len(GAMES)
        /\ Len(failed_urls) = Len(ExpectedFailures)
        /\ \A j \in 1..Len(ExpectedFailures) :
               LET pair == ExpectedFailures[j]
               IN  /\ failed_urls[j].game_name = pair.game.name
                   /\ failed_urls[j].portal = pair.portal
                   /\ failed_urls[j].url = PairUrl(pair)
                   /\ failed_urls[j].reason = ReasonOf(OutcomeOf(pair))
        /\ Len(game_alerts) = Len(ExpectedAlerts)
        /\ \A j \in 1..Len(ExpectedAlerts) :
               LET game == ExpectedAlerts[j]
               IN  /\ game_alerts[j].game_name = game.name
                   /\ game_alerts[j].p1_best = BestOf(raw[game.name][P1])
                   /\ game_alerts[j].champs_best = BestOf(raw[game.name][CHAMPS])

\* the tasks completed last game first, Champions Travel before P1 Travel,
\* and the lists are in configured order: failures of the first and the
\* third game, alerts of the first and the second
OrderWitness ==
    /\ Evaluated
    /\ order = << scrape_tasks[6], scrape_tasks[3], scrape_tasks[5],
                  scrape_tasks[2], scrape_tasks[4], scrape_tasks[1] >>
    /\ Len(failed_urls) = 3
    /\ failed_urls[1].game_name = GAMES[1].name /\ failed_urls[1].portal = CHAMPS
    /\ failed_urls[2].game_name = GAMES[3].name /\ failed_urls[2].portal = P1
    /\ failed_urls[3].game_name = GAMES[3].name /\ failed_urls[3].portal = CHAMPS
    /\ Len(game_alerts) = 2
    /\ game_alerts[1].game_name = GAMES[1].name
    /\ game_alerts[2].game_name = GAMES[2].name

(***************************************************************************)
(* Properties of one fetch, step by step (checked under SpecUnit)          *)
(***************************************************************************)
InFetch == call # << >> /\ call[1].fn = "fetch_ticket_prices"

\* at most two navigations, the second only after a time-out of the
\* first; a time-out of the second ends the fetch with the timed-out reason
TwoNavigationsAtMost ==
    InFetch =>
        LET site == call[1].arg.site
        IN  /\ fetch.navs <= 2
            /\ fetch.navs = 2 => site.nav1 = "timeout"
            /\ (ret # << >> /\ site.robots # "disallow" /\ site.launch = "ok"
                   /\ site.nav1 = "timeout" /\ site.nav2 = "timeout") =>
                   /\ fetch.navs = 2
                   /\ ret[1] = Returned(TicketResult(call[1].arg.url, << >>,
                                                     TimedOut(site.message)))

\* the time of one fetch is at most one page-load timeout plus one
\* settle-wait; fetch.elapsed adds up the navigations and the fixed waits
\* only, so the fetch has taken that long at least
OneTimeoutOneSettle ==
    InFetch => fetch.elapsed <= PAGE_LOAD_TIMEOUT_MS + JS_SETTLE_WAIT_MS

\* a fetch that has not ended has a next step, and a fetch that has ended
\* has returned an outcome: nothing stops a fetch but a call that does not
\* come back
FetchGoesOn ==
    /\ Calling("fetch_ticket_prices") => ENABLED NextUnit
    /\ Called("fetch_ticket_prices") => ret[1].kind = "returned"

\* C19: a fetch performs at most two navigations (the second only after a
\* time-out of the first, its time-out not retried and reported as timed
\* out), so the time of one fetch is at most one page-load timeout plus one
\* settle-wait, and every fetch goes on until it ends with an outcome.
FetchWithinOneTimeout ==
    /\ TwoNavigationsAtMost
    /\ OneTimeoutOneSettle
    /\ FetchGoesOn

(***************************************************************************)
(* Properties of the robots.txt cache (checked under Spec)                 *)
(***************************************************************************)
\* the robots.txt check of a url of the domain has completed: the cache
\* holds its answer
PolicyChecked(domain) ==
    \E task \in Tasks : DomainOf(task.url) = domain /\ CacheHit(robots_cache, task.url)

\* C20: the robots.txt policy is cached per domain per run: once the check
\* of one url of a domain has completed, a fetch that comes to its check
\* later reuses the cached policy and does not read the robots.txt of that
\* domain again. Only the reads of fetches that race on the first access,
\* each begun before any check of the domain had completed, may be several:
\* no step taken after a completed check of a domain begins a read of it.
PolicyReusedAfterCheck ==
    [][\A domain \in Domains :
          PolicyChecked(domain) => robots_reads'[domain] = robots_reads[domain]]_vars

(***************************************************************************)
(* Properties of the daily count (checked under Spec)                      *)
(***************************************************************************)
\* the state file held, when the run started, a count at or above the cap
\* for a date other than today
StaleCap ==
    file0.kind = "json" /\ file0.date # today /\ file0.count >= MAX_ALERTS_PER_DAY

\* C21: a count stored for an earlier date never blocks a run:
\* get_daily_count gives 0 when the state file is absent, cannot be parsed
\* or holds a date other than today, and the stored count only when the
\* stored date is today; a run inside the window that starts with a stale
\* count at or above MAX_ALERTS_PER_DAY passes the cap check and submits
\* its fetch tasks.
StaleCountNeverBlocks ==
    /\ get_daily_count(file0, today) =
           (IF file0 = Absent \/ file0 = Corrupt THEN 0
            ELSE IF file0.date # today THEN 0
            ELSE file0.count)
    /\ (InWindow /\ StaleCap) =>
           /\ ~cap_reached(file0, today)
           /\ pc \notin { "WindowCheck", "CapCheck", "Scraping" } => submitted = Tasks

\* a run that started with the count MAX_ALERTS_PER_DAY stored for the day
\* before has submitted its fetch tasks
StaleCountWitness ==
    /\ InWindow
    /\ file0 = StateJson(Days[1], MAX_ALERTS_PER_DAY)
    /\ today = Days[2]
    /\ pc = "Collecting"
    /\ submitted = Tasks

(***************************************************************************)
(* Properties of the subject of the message (checked under Spec)           *)
(***************************************************************************)
\* the counts of the parts of a subject that say what
PartsOf(subject, what) ==
    { subject[i].n : i \in { j \in 1..Len(subject) : subject[j].what = what } }

\* C22: the message is built only when the alert list or the failure list
\* is not empty; its subject holds the part "N game(s) in range" iff the
\* alert list is not empty, N being its length, and the part
\* "M URL(s) failed" iff the failure list is not empty, M being its length;
\* so every subject handed to send has at least one part.
SubjectCountsLists ==
    /\ payload # << >> =>
           LET subject == payload[1].subject
           IN  /\ game_alerts # << >> \/ failed_urls # << >>
               /\ PartsOf(subject, "game(s) in range") =
                      (IF game_alerts # << >> THEN { Len(game_alerts) } ELSE {})
               /\ PartsOf(subject, "URL(s) failed") =
                      (IF failed_urls # << >> THEN { Len(failed_urls) } ELSE {})
               /\ Len(subject) =
                      (IF game_alerts # << >> THEN 1 ELSE 0)
                      + (IF failed_urls # << >> THEN 1 ELSE 0)
               /\ Len(subject) >= 1
    /\ sendCalls > 0 => payload # << >>

\* a message whose subject is "6 URL(s) failed" alone has been handed to send
SubjectWitness ==
    /\ sendCalls = 1
    /\ game_alerts = << >>
    /\ payload[1].subject = << [ n |-> 6, what |-> "URL(s) failed" ] >>

(***************************************************************************)
(* The daily cap over the runs of one day (checked under SpecDay)          *)
(***************************************************************************)
\* C23: from an absent state file, after any number of runs of one day, one
\* after the other, the state file holds today's date and the number of
\* runs of the day whose delivery succeeded (it is still absent when there
\* was none); that number never exceeds MAX_ALERTS_PER_DAY; and a run that
\* started with today's count at MAX_ALERTS_PER_DAY calls send never.
DailyCapInvariant ==
    /\ IF delivered = 0 THEN file = Absent
                        ELSE file = StateJson(today, delivered)
    /\ get_daily_count(file, today) = delivered
    /\ delivered <= MAX_ALERTS_PER_DAY
    /\ get_daily_count(file0, today) >= MAX_ALERTS_PER_DAY =>
           /\ sendCalls = 0
           /\ payload = << >>
           /\ submitted = {}
           /\ file = file0

\* a run of the day, inside the window, has ended without a delivery after
\* MAX_ALERTS_PER_DAY runs had delivered
DailyCapWitness ==
    /\ pc = "Done"
    /\ InWindow
    /\ runs > MAX_ALERTS_PER_DAY
    /\ delivered = MAX_ALERTS_PER_DAY
    /\ file0 = StateJson(today, MAX_ALERTS_PER_DAY)
    /\ file = file0
    /\ sendCalls = 0
    /\ exitCode = << 0 >>

(***************************************************************************)
(* Accounting of the portals of a game (checked under SpecEval)            *)
(***************************************************************************)
\* the best price an alert entry holds for a portal
EntryBest(alert, portal) ==
    IF portal = P1 THEN alert.p1_best ELSE alert.champs_best

\* the alert entries of a game that hold a best price for the portal
BestsOf(name, portal) ==
    { i \in AlertsOf(name) : EntryBest(game_alerts[i], portal) # None }

\* C24: after the evaluation every (game, portal) pair is accounted for
\* exactly once, by a failure entry or by a best price in the game's alert
\* entry, never by both and never by neither; so for every game the failure
\* entries and the best prices of its alert entry add up to 2; and the
\* portal an alert entry names as cheaper_portal has a best price, which is
\* the least of the entry's best prices.
PortalAccounting ==
    Evaluated =>
        \A name \in GameNames :
            /\ Cardinality(AlertsOf(name)) <= 1
            /\ \A portal \in Portals :
                   /\ Cardinality(FailuresOf(name, portal))
                          + Cardinality(BestsOf(name, portal)) = 1
                   /\ (FailuresOf(name, portal) # {})
                          = ~portal_status(raw[name][portal], "").ok
            /\ Cardinality(FailuresOf(name, P1))
                   + Cardinality(FailuresOf(name, CHAMPS))
                   + Cardinality(BestsOf(name, P1))
                   + Cardinality(BestsOf(name, CHAMPS)) = 2
            /\ \A i \in AlertsOf(name) :
                   LET alert == game_alerts[i]
                       cheapest == EntryBest(alert, alert.cheaper_portal)
                   IN  /\ alert.cheaper_portal \in Portals
                       /\ cheapest # None
                       /\ \A portal \in Portals :
                              EntryBest(alert, portal) # None =>
                                  cheapest <= EntryBest(alert, portal)

\* the evaluation met a game with no portal in range, a game with one, and
\* a game with both, Champions Travel being the cheaper
AccountingWitness ==
    /\ Evaluated
    /\ Len(game_alerts) = 2
    /\ Len(failed_urls) = 3
    /\ AlertsOf(GAMES[1].name) = {}
    /\ game_alerts[1].p1_best = None
    /\ game_alerts[1].champs_best = 100
    /\ game_alerts[1].cheaper_portal = CHAMPS
    /\ game_alerts[2].p1_best = 500
    /\ game_alerts[2].champs_best = 100
    /\ game_alerts[2].cheaper_portal = CHAMPS

====
